---- MODULE Spec2Model ----
(***************************************************************************)
(* cpp-envlib (libenv.h): a typed store of environment values.             *)
(*                                                                         *)
(* Texts are sequences of one-character strings.  Integers are kept as a   *)
(* sign and a sequence of decimal digits, so that the 32-bit and 64-bit    *)
(* range checks of std::stoi / std::stoll are made at their real widths.   *)
(* Doubles are kept as exact decimals (sign, mantissa digits, exponent of  *)
(* ten); the texts of the model are short enough for a double to tell      *)
(* them apart.                                                             *)
(*                                                                         *)
(* A value computed once and used several times is handed to a helper      *)
(* operator as an argument (XxxOf), which keeps the definitions small.     *)
(***************************************************************************)
EXTENDS Integers, Sequences, FiniteSets, TLC

(***************************************************************************)
(* Characters and digit sequences.                                         *)
(***************************************************************************)
Digits == {"0", "1", "2", "3", "4", "5", "6", "7", "8", "9"}

IsDigit(c) == c \in Digits

IsSpace(c) == c \in {" ", "\t", "\n", "\r"}

DigitVal(c) ==
    CASE c = "0" -> 0 [] c = "1" -> 1 [] c = "2" -> 2 [] c = "3" -> 3
      [] c = "4" -> 4 [] c = "5" -> 5 [] c = "6" -> 6 [] c = "7" -> 7
      [] c = "8" -> 8 [] c = "9" -> 9

DigitChar(d) ==
    CASE d = 0 -> "0" [] d = 1 -> "1" [] d = 2 -> "2" [] d = 3 -> "3" [] d = 4 -> "4"
      [] d = 5 -> "5" [] d = 6 -> "6" [] d = 7 -> "7" [] d = 8 -> "8" [] d = 9 -> "9"

ToLowerChar(c) ==
    CASE c = "A" -> "a" [] c = "B" -> "b" [] c = "C" -> "c" [] c = "D" -> "d"
      [] c = "E" -> "e" [] c = "F" -> "f" [] c = "G" -> "g" [] c = "H" -> "h"
      [] c = "I" -> "i" [] c = "J" -> "j" [] c = "K" -> "k" [] c = "L" -> "l"
      [] c = "M" -> "m" [] c = "N" -> "n" [] c = "O" -> "o" [] c = "P" -> "p"
      [] c = "Q" -> "q" [] c = "R" -> "r" [] c = "S" -> "s" [] c = "T" -> "t"
      [] c = "U" -> "u" [] c = "V" -> "v" [] c = "W" -> "w" [] c = "X" -> "x"
      [] c = "Y" -> "y" [] c = "Z" -> "z" [] OTHER -> c

\* std::transform(..., tolower)
ToLower(s) == [i \in 1..Len(s) |-> ToLowerChar(s[i])]

\* The first index >= i of s that holds no white space (Len(s)+1 if none).
RECURSIVE SkipSpace(_, _)
SkipSpace(s, i) ==
    IF i <= Len(s) /\ IsSpace(s[i]) THEN SkipSpace(s, i + 1) ELSE i

\* The first index >= i of s that holds no digit (Len(s)+1 if none).
RECURSIVE SkipDigits(_, _)
SkipDigits(s, i) ==
    IF i <= Len(s) /\ IsDigit(s[i]) THEN SkipDigits(s, i + 1) ELSE i

\* A digit sequence without its leading zeros; zero is <<"0">>.
RECURSIVE StripLeadingZeros(_)
StripLeadingZeros(ds) ==
    IF Len(ds) > 1 /\ ds[1] = "0" THEN StripLeadingZeros(Tail(ds))
    ELSE IF ds = <<>> THEN <<"0">> ELSE ds

\* a < b for digit sequences of the same length.
RECURSIVE LexLess(_, _)
LexLess(a, b) ==
    IF a = <<>> THEN FALSE
    ELSE IF a[1] # b[1] THEN DigitVal(a[1]) < DigitVal(b[1])
    ELSE LexLess(Tail(a), Tail(b))

\* a <= b for digit sequences without leading zeros.
MagLeq(a, b) ==
    \/ Len(a) < Len(b)
    \/ Len(a) = Len(b) /\ (a = b \/ LexLess(a, b))

(***************************************************************************)
(* The limits of int and long long, as digit sequences.                    *)
(***************************************************************************)
IntMaxMag == <<"2","1","4","7","4","8","3","6","4","7">>
IntMinMag == <<"2","1","4","7","4","8","3","6","4","8">>
LLongMaxMag ==
    <<"9","2","2","3","3","7","2","0","3","6","8","5","4","7","7","5","8","0","7">>
LLongMinMag ==
    <<"9","2","2","3","3","7","2","0","3","6","8","5","4","7","7","5","8","0","8">>

\* The sign at s[i], if there is one.
HasSign(s, i) == i <= Len(s) /\ s[i] \in {"+", "-"}
IsMinus(s, i) == i <= Len(s) /\ s[i] = "-"
AfterSign(s, i) == IF HasSign(s, i) THEN i + 1 ELSE i

(***************************************************************************)
(* strtol / strtoll: optional white space, optional sign, decimal digits;  *)
(* what follows the digits is ignored.  No digit at all is "no conversion" *)
(* (std::invalid_argument); a value outside the 64-bit range is ERANGE     *)
(* (std::out_of_range).                                                    *)
(***************************************************************************)
\* The digits are s[j .. k-1], the sign is neg.
ScanIntegerOf(neg, mag, j, k) ==
    IF k = j THEN [tag |-> "invalid_argument"]
    ELSE IF ~MagLeq(mag, IF neg THEN LLongMinMag ELSE LLongMaxMag)
         THEN [tag |-> "out_of_range"]
    ELSE [tag |-> "ok", neg |-> neg /\ mag # <<"0">>, mag |-> mag]

ScanIntegerDigits(s, neg, j, k) ==
    ScanIntegerOf(neg, StripLeadingZeros(SubSeq(s, j, k - 1)), j, k)

ScanIntegerAt(s, i) ==
    ScanIntegerDigits(s, IsMinus(s, i), AfterSign(s, i), SkipDigits(s, AfterSign(s, i)))

ScanInteger(s) == ScanIntegerAt(s, SkipSpace(s, 1))

\* strtol alone, its long taken for an int without the range check.
StoiOfUnchecked(r) == r

\* std::stoi: strtol, then the check that the long fits an int.
StoiOf(r) ==
    IF r.tag # "ok" THEN r
    ELSE IF MagLeq(r.mag, IF r.neg THEN IntMinMag ELSE IntMaxMag) THEN r
    ELSE [tag |-> "out_of_range"]

Stoi(s) == StoiOf(ScanInteger(s))

\* std::stoll: strtoll.
Stoll(s) == ScanInteger(s)

\* The value of a short digit sequence; a long one saturates (the exponent
\* of a double is far out of range long before).
RECURSIVE DecValue(_)
DecValue(ds) ==
    IF ds = <<>> THEN 0
    ELSE IF Len(ds) > 4 THEN 99999
    ELSE DecValue(SubSeq(ds, 1, Len(ds) - 1)) * 10 + DigitVal(ds[Len(ds)])

\* Mantissa digits without trailing zeros, the exponent raised to match.
RECURSIVE StripTrailingZeros(_, _)
StripTrailingZeros(ds, e) ==
    IF Len(ds) > 1 /\ ds[Len(ds)] = "0"
    THEN StripTrailingZeros(SubSeq(ds, 1, Len(ds) - 1), e + 1)
    ELSE [mant |-> ds, exp |-> IF ds = <<"0">> THEN 0 ELSE e]

(***************************************************************************)
(* std::stod (strtod), decimal form: optional white space, optional sign,  *)
(* digits with an optional point, an optional exponent; what follows is    *)
(* ignored.  No digit is std::invalid_argument, a magnitude no double      *)
(* holds is ERANGE (std::out_of_range): DBL_MAX is about 1.8e308 and the   *)
(* least denormal about 4.9e-324.  The "inf", "nan" and hexadecimal forms  *)
(* are not modelled: no text of the model begins with them.                *)
(***************************************************************************)
\* n is the normalised mantissa and exponent.
StodOf(neg, n) ==
    IF n.mant # <<"0">> /\ (Len(n.mant) + n.exp - 1 > 308 \/ Len(n.mant) + n.exp - 1 < 0 - 324)
    THEN [tag |-> "out_of_range"]
    ELSE [tag |-> "ok", neg |-> neg, mant |-> n.mant, exp |-> n.exp]

\* The exponent written at s[m], 0 if none is: 'e' or 'E', an optional
\* sign, and at least one digit.
ExponentDigits(s, ed) == SubSeq(s, ed, SkipDigits(s, ed) - 1)

ExponentAt(s, m) ==
    IF m <= Len(s) /\ s[m] \in {"e", "E"}
    THEN (IF IsMinus(s, m + 1)
          THEN 0 - DecValue(StripLeadingZeros(ExponentDigits(s, AfterSign(s, m + 1))))
          ELSE DecValue(StripLeadingZeros(ExponentDigits(s, AfterSign(s, m + 1)))))
    ELSE 0

\* The integer digits are intDs, the fraction digits fracDs, and the
\* mantissa ends before s[m].
StodParts(s, neg, intDs, fracDs, m) ==
    IF intDs = <<>> /\ fracDs = <<>> THEN [tag |-> "invalid_argument"]
    ELSE StodOf(neg, StripTrailingZeros(StripLeadingZeros(intDs \o fracDs),
                                        ExponentAt(s, m) - Len(fracDs)))

\* The integer digits are s[j .. k-1].
StodDigits(s, neg, j, k) ==
    IF k <= Len(s) /\ s[k] = "."
    THEN StodParts(s, neg, SubSeq(s, j, k - 1),
                   SubSeq(s, k + 1, SkipDigits(s, k + 1) - 1), SkipDigits(s, k + 1))
    ELSE StodParts(s, neg, SubSeq(s, j, k - 1), <<>>, k)

StodAt(s, i) ==
    StodDigits(s, IsMinus(s, i), AfterSign(s, i), SkipDigits(s, AfterSign(s, i)))

Stod(s) == StodAt(s, SkipSpace(s, 1))

(***************************************************************************)
(* The values a variant holds.                                             *)
(***************************************************************************)
Types == {"int", "double", "longlong", "string", "bool"}

IntValue(neg, mag) == [kind |-> "int", neg |-> neg, mag |-> mag]
LongLongValue(neg, mag) == [kind |-> "longlong", neg |-> neg, mag |-> mag]
DoubleValue(neg, mant, exp) == [kind |-> "double", neg |-> neg, mant |-> mant, exp |-> exp]
BoolValue(b) == [kind |-> "bool", b |-> b]
StringValue(s) == [kind |-> "string", s |-> s]
CharPtrValue(s) == [kind |-> "charptr", s |-> s]
EnumValue(e) == [kind |-> "EnvCfgTypes", e |-> e]

\* std::optional: empty, or holding a value.
NullOpt == [has |-> FALSE]
Some(v) == [has |-> TRUE, v |-> v]

(***************************************************************************)
(* Exceptions: the class thrown, how many times the message was given the  *)
(* "Error while getting environment value: " prefix, the message's fixed   *)
(* words and the text appended to them.                                    *)
(***************************************************************************)
EnvBadGet(what, arg) == [cls |-> "EnvBadGet", prefix |-> 1, what |-> what, arg |-> arg]
EnvException(what, arg) == [cls |-> "EnvException", prefix |-> 1, what |-> what, arg |-> arg]
EnvSetError(what, arg) == [cls |-> "EnvSetError", prefix |-> 1, what |-> what, arg |-> arg]

\* A handler for class h catches an exception of class c.
Catches(h, c) ==
    \/ h = c
    \/ h = "EnvException" /\ c \in {"EnvBadGet", "EnvSetError"}
    \/ h = "std::exception"

\* How a call ends: with a value, with an exception, or with nothing
\* (void, or an empty optional).
Returned(v) == [tag |-> "value", v |-> v]
Thrown(e) == [tag |-> "throw", exc |-> e]
NoResult == [tag |-> "nullopt"]

(***************************************************************************)
(* The process environment: a function from the names that are set to      *)
(* their texts.                                                            *)
(***************************************************************************)
GetEnv(environ, env_name) ==
    IF env_name \in DOMAIN environ THEN environ[env_name] ELSE <<>>

\* The branches of GetEnvByType<T>, on the outcome r of the conversion.
IntBranch(r, result) ==
    IF r.tag = "ok" THEN Returned(IntValue(r.neg, r.mag))
    ELSE IF r.tag = "invalid_argument" THEN Thrown(EnvBadGet("expected int", result))
    ELSE Thrown(EnvBadGet("int overflow", result))

DoubleBranch(r, result) ==
    IF r.tag = "ok" THEN Returned(DoubleValue(r.neg, r.mant, r.exp))
    ELSE IF r.tag = "invalid_argument" THEN Thrown(EnvBadGet("expected double", result))
    ELSE Thrown(EnvException("catch unhandled exception", <<>>))

LongLongBranch(r, result) ==
    IF r.tag = "ok" THEN Returned(LongLongValue(r.neg, r.mag))
    ELSE IF r.tag = "invalid_argument" THEN Thrown(EnvBadGet("expected long long", result))
    ELSE Thrown(EnvBadGet("long long overflow", result))

\* The bool branch taking the text "1" for true as well.
BoolBranchCoercing(lower) ==
    IF lower = <<"t", "r", "u", "e">> \/ lower = <<"1">> THEN Returned(BoolValue(TRUE))
    ELSE IF lower = <<"f", "a", "l", "s", "e">> THEN Returned(BoolValue(FALSE))
    ELSE Thrown(EnvBadGet("expected bool", lower))

BoolBranch(lower) ==
    IF lower = <<"t", "r", "u", "e">> THEN Returned(BoolValue(TRUE))
    ELSE IF lower = <<"f", "a", "l", "s", "e">> THEN Returned(BoolValue(FALSE))
    ELSE Thrown(EnvBadGet("expected bool", lower))

\* GetEnvByType<T> without the test for an empty text.
GetEnvByTypeOfEmptyParsed(T, result) ==
    IF T = "string" THEN Returned(StringValue(result))
    ELSE IF T = "int" THEN IntBranch(Stoi(result), result)
    ELSE IF T = "double" THEN DoubleBranch(Stod(result), result)
    ELSE IF T = "longlong" THEN LongLongBranch(Stoll(result), result)
    ELSE IF T = "bool" THEN BoolBranch(ToLower(result))
    ELSE Thrown(EnvException("unhandled type", <<>>))

\* GetEnvByType<T> on the text result of GetEnv: nullopt for an unset or
\* empty variable, else the text parsed as T, or the exception of a text
\* that does not parse.
GetEnvByTypeOf(T, result) ==
    IF result = <<>> THEN NoResult
    ELSE IF T = "string" THEN Returned(StringValue(result))
    ELSE IF T = "int" THEN IntBranch(Stoi(result), result)
    ELSE IF T = "double" THEN DoubleBranch(Stod(result), result)
    ELSE IF T = "longlong" THEN LongLongBranch(Stoll(result), result)
    ELSE IF T = "bool" THEN BoolBranch(ToLower(result))
    ELSE Thrown(EnvException("unhandled type", <<>>))

GetEnvByType(T, environ, env_name) == GetEnvByTypeOf(T, GetEnv(environ, env_name))

(***************************************************************************)
(* The store m_env_result: a function from the names it holds to their     *)
(* entries.  An operation on it ends normally or by throwing; either way   *)
(* it leaves a store behind.                                               *)
(***************************************************************************)
\* The store of a new EnvCfg.
EmptyStore == [n \in {} |-> NullOpt]

Done(m) == [store |-> m, thrown |-> FALSE]
Raised(m, e) == [store |-> m, thrown |-> TRUE, exc |-> e]

\* m_env_result[env_name] = entry
Assign(m, env_name, entry) ==
    [n \in DOMAIN m \cup {env_name} |-> IF n = env_name THEN entry ELSE m[n]]

\* The assignment keeping an int as a long long.
StoredWidened(v, libstd) ==
    IF v.kind = "charptr"
    THEN (IF libstd = "P0608" THEN StringValue(v.s) ELSE BoolValue(TRUE))
    ELSE IF v.kind = "int" THEN LongLongValue(v.neg, v.mag)
    ELSE v

\* What the store's variant holds after it is assigned v.  A char* is not
\* one of its alternatives: the converting assignment picks std::string
\* where the library implements P0608, and bool (a non-null pointer is
\* true) where it does not.
Stored(v, libstd) ==
    IF v.kind = "charptr"
    THEN (IF libstd = "P0608" THEN StringValue(v.s) ELSE BoolValue(TRUE))
    ELSE v

\* HandleType<T> without the branch that falls back on the EnvValue's own
\* value.
HandleTypeOfNoDefault(env_val, T, value, env_name, m, libstd) ==
    IF env_val.tag = "throw" THEN Raised(m, env_val.exc)
    ELSE IF env_val.tag = "value"
         THEN Done(Assign(m, env_name, Some(Stored(env_val.v, libstd))))
    ELSE Done(Assign(m, env_name, NullOpt))

\* HandleType<T> with its first two branches in the other order: the
\* EnvValue's own value before the live one.
HandleTypeOfDefaultFirst(env_val, T, value, env_name, m, libstd) ==
    IF env_val.tag = "throw" THEN Raised(m, env_val.exc)
    ELSE IF value.has /\ value.v.kind = T
         THEN Done(Assign(m, env_name, Some(Stored(value.v, libstd))))
    ELSE IF env_val.tag = "value"
         THEN Done(Assign(m, env_name, Some(Stored(env_val.v, libstd))))
    ELSE Done(Assign(m, env_name, NullOpt))

\* HandleType<T>(value, env_name), env_val being GetEnvByType<T>(env_name):
\* the live value parsed as T if there is one, else the EnvValue's own
\* value if it holds a T, else nullopt.
HandleTypeOf(env_val, T, value, env_name, m, libstd) ==
    IF env_val.tag = "throw" THEN Raised(m, env_val.exc)
    ELSE IF env_val.tag = "value"
         THEN Done(Assign(m, env_name, Some(Stored(env_val.v, libstd))))
    ELSE IF value.has
         THEN (IF value.v.kind = T
               THEN Done(Assign(m, env_name, Some(Stored(value.v, libstd))))
               ELSE Done(Assign(m, env_name, NullOpt)))
    ELSE Done(Assign(m, env_name, NullOpt))

HandleType(T, value, env_name, m, environ, libstd) ==
    HandleTypeOf(GetEnvByType(T, environ, env_name), T, value, env_name, m, libstd)

\* TryHandleType<T>(value, env_name): value holds the T it was made from.
TryHandleType(T, value, env_name, m, environ, libstd) ==
    IF value.v.kind = T
    THEN HandleType(T, value, env_name, m, environ, libstd)
    ELSE Done(m)

EnumTypes == {"string_", "int_", "double_", "longlong_", "bool_"}

\* The switch of HandleEnumType with the cases of int_ and longlong_
\* exchanged.
TypeOfEnumExchanged(e) ==
    CASE e = "string_" -> "string" [] e = "int_" -> "longlong" [] e = "double_" -> "double"
      [] e = "longlong_" -> "int" [] e = "bool_" -> "bool"

\* The switch of HandleEnumType: the T of the HandleType<T> of each case.
TypeOfEnum(e) ==
    CASE e = "string_" -> "string" [] e = "int_" -> "int" [] e = "double_" -> "double"
      [] e = "longlong_" -> "longlong" [] e = "bool_" -> "bool"

HandleEnumType(value, env_name, m, environ, libstd) ==
    IF value.v.e \in EnumTypes
    THEN HandleType(TypeOfEnum(value.v.e), value, env_name, m, environ, libstd)
    ELSE Raised(m, EnvException("unknown enum type", <<>>))

\* The std::visit of ProcessEntry: an EnvCfgTypes goes to HandleEnumType,
\* any other alternative to TryHandleType of its own type.
VisitEntry(env_name, default_value, m, environ, libstd) ==
    IF default_value.v.kind = "EnvCfgTypes"
    THEN HandleEnumType(default_value, env_name, m, environ, libstd)
    ELSE TryHandleType(default_value.v.kind, default_value, env_name, m, environ, libstd)

\* The catch of ProcessEntry: a std::exception is thrown again as an
\* EnvException made of its what().
Rethrow(r) ==
    IF r.thrown
    THEN Raised(r.store, [cls |-> "EnvException", prefix |-> r.exc.prefix + 1,
                          what |-> r.exc.what, arg |-> r.exc.arg])
    ELSE r

\* ProcessEntry: default_value.value() of an empty EnvValue throws
\* std::bad_optional_access, which the catch turns into an EnvException
\* like any other.
ProcessEntry(env_name, default_value, m, environ, libstd) ==
    IF ~default_value.has
    THEN Raised(m, EnvException("bad optional access", <<>>))
    ELSE Rethrow(VisitEntry(env_name, default_value, m, environ, libstd))

\* InitEnv: ProcessEntry on the entries of env_map in the order the
\* unordered_map yields them, up to the first that throws.  "at" is the
\* place in the order of the entry that threw, 0 if none did.
RECURSIVE InitEnvFrom(_, _, _, _, _, _)
InitEnvNext(r, i, env_map, order, environ, libstd) ==
    IF r.thrown
    THEN [store |-> r.store, thrown |-> TRUE, exc |-> r.exc, at |-> i]
    ELSE InitEnvFrom(i + 1, env_map, order, r.store, environ, libstd)

InitEnvFrom(i, env_map, order, m, environ, libstd) ==
    IF i > Len(order) THEN [store |-> m, thrown |-> FALSE, at |-> 0]
    ELSE InitEnvNext(ProcessEntry(order[i], env_map[order[i]], m, environ, libstd),
                     i, env_map, order, environ, libstd)

\* InitEnv putting the store back as it was when an entry throws.
InitEnvRollback(r, m) ==
    IF r.thrown THEN [store |-> m, thrown |-> TRUE, exc |-> r.exc, at |-> r.at] ELSE r

InitEnvDiscarding(env_map, order, m, environ, libstd) ==
    InitEnvRollback(InitEnvFrom(1, env_map, order, m, environ, libstd), m)

\* InitEnv emptying the store before it fills it.
InitEnvCleared(env_map, order, m, environ, libstd) ==
    InitEnvFrom(1, env_map, order, EmptyStore, environ, libstd)

InitEnv(env_map, order, m, environ, libstd) ==
    InitEnvFrom(1, env_map, order, m, environ, libstd)

(***************************************************************************)
(* The reads of the store.                                                 *)
(***************************************************************************)
\* Get<T> without the type check of std::get<T>.
GetUnchecked(T, m, env_name) ==
    IF env_name \notin DOMAIN m THEN Thrown(EnvBadGet("not found", env_name))
    ELSE IF ~m[env_name].has THEN Thrown(EnvBadGet("no value for", env_name))
    ELSE Returned(m[env_name].v)

Get(T, m, env_name) ==
    IF env_name \notin DOMAIN m THEN Thrown(EnvBadGet("not found", env_name))
    ELSE IF ~m[env_name].has THEN Thrown(EnvBadGet("no value for", env_name))
    ELSE IF m[env_name].v.kind = T THEN Returned(m[env_name].v)
    ELSE Thrown(EnvBadGet("invalid type for", env_name))

\* GetN<T> without the holds_alternative<T> check.
GetNUnchecked(T, m, env_name) ==
    IF env_name \notin DOMAIN m \/ ~m[env_name].has THEN NoResult
    ELSE Returned(m[env_name].v)

GetN(T, m, env_name) ==
    IF env_name \notin DOMAIN m \/ ~m[env_name].has THEN NoResult
    ELSE IF m[env_name].v.kind = T THEN Returned(m[env_name].v)
    ELSE NoResult

IsType(T, m, env_name) ==
    IF env_name \notin DOMAIN m \/ ~m[env_name].has THEN FALSE
    ELSE IF m[env_name].v.kind = T THEN TRUE
    ELSE FALSE

\* HasValue without the test of the optional.
HasValuePresent(m, env_name) == env_name \in DOMAIN m

HasValue(m, env_name) ==
    IF env_name \notin DOMAIN m THEN FALSE
    ELSE IF ~m[env_name].has THEN FALSE
    ELSE TRUE

\* Empty taking a store without a value for a store without an entry.
EmptyOfValues(m) == \A n \in DOMAIN m : ~m[n].has

Empty(m) == DOMAIN m = {}

(***************************************************************************)
(* setenv(3): EINVAL for an empty name or one that holds '=', ENOMEM when  *)
(* memory runs out; a name that is set is left alone unless overwrite.     *)
(***************************************************************************)
HasEquals(env_name) == \E i \in 1..Len(env_name) : env_name[i] = "="

setenv(environ, env_name, value, overwrite, nomem) ==
    IF env_name = <<>> \/ HasEquals(env_name) \/ nomem
    THEN [rc |-> 0 - 1, environ |-> environ]
    ELSE IF env_name \in DOMAIN environ /\ ~overwrite
    THEN [rc |-> 0, environ |-> environ]
    ELSE [rc |-> 0,
          environ |-> [n \in DOMAIN environ \cup {env_name} |->
                          IF n = env_name THEN value ELSE environ[n]]]

\* SetEnv: the name is checked before setenv is called.
SetEnvOf(w, env_name) ==
    IF w.rc # 0
    THEN [environ |-> w.environ, thrown |-> TRUE,
          exc |-> EnvSetError("setenv failed for variable", env_name)]
    ELSE [environ |-> w.environ, thrown |-> FALSE]

\* SetEnv without the check of the name.
SetEnvUnvalidated(environ, env_name, value, overwrite, nomem) ==
    SetEnvOf(setenv(environ, env_name, value, overwrite, nomem), env_name)

SetEnv(environ, env_name, value, overwrite, nomem) ==
    IF env_name = <<>> \/ HasEquals(env_name)
    THEN [environ |-> environ, thrown |-> TRUE,
          exc |-> EnvSetError("invalid environment variable name", env_name)]
    ELSE SetEnvOf(setenv(environ, env_name, value, overwrite, nomem), env_name)

\* SetEnvN returning true whatever setenv reports.
SetEnvNOfIgnored(w) == [environ |-> w.environ, ok |-> TRUE]

\* SetEnvN: setenv's verdict as a boolean.
SetEnvNOf(w) == [environ |-> w.environ, ok |-> w.rc = 0]

SetEnvN(environ, env_name, value, overwrite, nomem) ==
    SetEnvNOf(setenv(environ, env_name, value, overwrite, nomem))


(***************************************************************************)
(* EnvDefaultValue<T>, the wrapper GetW returns: the exception it was made *)
(* with if any, its value if any, and the name of the variable.            *)
(***************************************************************************)
\* explicit EnvDefaultValue(value): no name.
EnvDefaultValueOf(value) ==
    [m_exception |-> NullOpt, m_value |-> value, m_env_name |-> <<>>]

\* EnvDefaultValue(env_name, value)
EnvDefaultValueNamed(env_name, value) ==
    [m_exception |-> NullOpt, m_value |-> value, m_env_name |-> env_name]

\* EnvDefaultValue(env_name, value, error): std::make_exception_ptr copies
\* error as an object of class cls, the class of the constructor's parameter.
EnvDefaultValueError(env_name, value, error, cls) ==
    [m_exception |-> Some([cls |-> cls, prefix |-> error.prefix,
                           what |-> error.what, arg |-> error.arg]),
     m_value |-> value, m_env_name |-> env_name]

\* default_value(f): the value, or f when there is none.
default_value(w, f) ==
    IF w.m_value.has THEN Returned(w.m_value.v) ELSE Returned(f)

\* operator T(): the stored exception thrown again, else EnvBadGet when
\* there is no value, else the value.
OperatorT(w) ==
    IF w.m_exception.has THEN Thrown(w.m_exception.v)
    ELSE IF ~w.m_value.has
         THEN (IF w.m_env_name # <<>>
               THEN Thrown(EnvBadGet("no value for", w.m_env_name))
               ELSE Thrown(EnvBadGet("no value for unknow environment", <<>>)))
    ELSE Returned(w.m_value.v)

\* GetW<T> without its two catch clauses.
GetWOfUncaught(value, env_name) ==
    IF value.tag = "value" THEN Returned(EnvDefaultValueOf(Some(value.v)))
    ELSE IF value.tag = "throw" THEN Thrown(value.exc)
    ELSE Returned(EnvDefaultValueNamed(env_name, NullOpt))

\* GetW<T>(env_name), value being the outcome of GetEnvByType<T>(env_name):
\* the catch of EnvBadGet comes before the catch of EnvException.
GetWOf(value, env_name) ==
    IF value.tag = "value" THEN Returned(EnvDefaultValueOf(Some(value.v)))
    ELSE IF value.tag = "throw"
         THEN (IF Catches("EnvBadGet", value.exc.cls)
               THEN Returned(EnvDefaultValueError(env_name, NullOpt, value.exc, "EnvBadGet"))
               ELSE IF Catches("EnvException", value.exc.cls)
               THEN Returned(EnvDefaultValueError(env_name, NullOpt, value.exc, "EnvException"))
               ELSE Thrown(value.exc))
    ELSE Returned(EnvDefaultValueNamed(env_name, NullOpt))

GetW(T, environ, env_name) == GetWOf(GetEnvByType(T, environ, env_name), env_name)

(***************************************************************************)
(* EnvCfgIterator: the text of each entry.  std::to_string of a double is  *)
(* printf's "%f": the value rounded to six digits after the point.  A      *)
(* DoubleValue stands for the double nearest to mant * 10^exp; when the    *)
(* digits cut off are exactly a half in decimal, the binary digits of the  *)
(* double, which the model does not hold, decide the rounding, so tieUp    *)
(* leaves it open.                                                         *)
(***************************************************************************)
Zeros(k) == [i \in 1..k |-> "0"]

\* ds with zeros in front, to the length k at least.
PadLeft(ds, k) == IF Len(ds) >= k THEN ds ELSE Zeros(k - Len(ds)) \o ds

\* The digit sequence of the number after ds.
RECURSIVE Incr(_)
Incr(ds) ==
    IF ds = <<>> THEN <<"1">>
    ELSE IF ds[Len(ds)] = "9" THEN Incr(SubSeq(ds, 1, Len(ds) - 1)) \o <<"0">>
    ELSE SubSeq(ds, 1, Len(ds) - 1) \o <<DigitChar(DigitVal(ds[Len(ds)]) + 1)>>

\* std::to_string of an int or a long long.
IntToString(neg, mag) == IF neg THEN <<"-">> \o mag ELSE mag

\* The text of the value whose millionths are the digits ds (seven or more).
FixedText(neg, ds) ==
    (IF neg THEN <<"-">> ELSE <<>>)
        \o StripLeadingZeros(SubSeq(ds, 1, Len(ds) - 6))
        \o <<".">> \o SubSeq(ds, Len(ds) - 5, Len(ds))

\* The digits rest that are cut off are more than a half, or a half and
\* tieUp.
RoundsUp(rest, tieUp) ==
    \/ DigitVal(rest[1]) > 5
    \/ /\ rest[1] = "5"
       /\ (tieUp \/ \E i \in 2..Len(rest) : rest[i] # "0")

\* kept are the digits of the millionths, rest the digits beyond them.
RoundedText(neg, kept, rest, tieUp) ==
    FixedText(neg, PadLeft(IF RoundsUp(rest, tieUp) THEN Incr(kept) ELSE kept, 7))

\* The mantissa ds has cut digits beyond the millionths.
CutText(neg, ds, cut, tieUp) ==
    RoundedText(neg, SubSeq(ds, 1, Len(ds) - cut), SubSeq(ds, Len(ds) - cut + 1, Len(ds)),
                tieUp)

\* std::to_string of a double.
DoubleToString(neg, mant, exp, tieUp) ==
    IF exp >= 0 - 6
    THEN FixedText(neg, PadLeft(mant \o Zeros(exp + 6), 7))
    ELSE CutText(neg, PadLeft(mant, (0 - exp) - 6), (0 - exp) - 6, tieUp)

\* VariantToStringVisitor
VariantToString(v, tieUp) ==
    IF v.kind = "int" \/ v.kind = "longlong" THEN IntToString(v.neg, v.mag)
    ELSE IF v.kind = "double" THEN DoubleToString(v.neg, v.mant, v.exp, tieUp)
    ELSE IF v.kind = "string" THEN v.s
    ELSE IF v.b THEN <<"t", "r", "u", "e">> ELSE <<"f", "a", "l", "s", "e">>

\* EnvValueToString
EnvValueToString(value, tieUp) ==
    IF ~value.has THEN <<"n", "u", "l", "l", "o", "p", "t">>
    ELSE VariantToString(value.v, tieUp)

\* The pairs a pass of the iterator yields.
Iterate(m, tieUp) == {<<n, EnvValueToString(m[n], tieUp)>> : n \in DOMAIN m}
(***************************************************************************)
(* The state: the process environment, the store of one EnvCfg, what the   *)
(* last call was and how it ended, and the standard library of the build.  *)
(***************************************************************************)
VARIABLES environ, m_env_result, last, libstd

vars == <<environ, m_env_result, last, libstd>>

NameA == <<"A">>
NameB == <<"B">>

\* Names setenv refuses.
InvalidNames == {<<>>, <<"A", "=", "B">>}

\* The default values of the declarations are the ints 0 .. MaxDefaultInt
\* and one value of each other type.
MaxDefaultInt == 0

RECURSIVE NatDigits(_)
NatDigits(n) ==
    IF n < 10 THEN <<DigitChar(n)>>
    ELSE Append(NatDigits(n \div 10), DigitChar(n % 10))

DefaultInts == {IntValue(FALSE, NatDigits(i)) : i \in 0..MaxDefaultInt}

OtherDefaults ==
    { LongLongValue(FALSE, <<"1","0","0","0","0","0","0","0","0","0","0">>),
      DoubleValue(FALSE, <<"2","5">>, 0 - 1),
      BoolValue(TRUE),
      StringValue(<<"d","e","f","a","u","l","t">>),
      CharPtrValue(<<"p","t","r">>) }

TypeHints == {Some(EnumValue(e)) : e \in EnumTypes}

\* The texts and declarations of the runs with one name.
FullTexts ==
    { <<>>,
      <<"4", "2">>,
      <<"-", "1", "2", "3">>,
      <<"2", "1", "4", "7", "4", "8", "3", "6", "4", "7">>,
      <<"2", "1", "4", "7", "4", "8", "3", "6", "4", "8">>,
      <<"-", "2", "1", "4", "7", "4", "8", "3", "6", "4", "8">>,
      <<"-", "2", "1", "4", "7", "4", "8", "3", "6", "4", "9">>,
      <<"9", "2", "2", "3", "3", "7", "2", "0", "3", "6", "8", "5", "4", "7", "7", "5", "8", "0", "7">>,
      <<"9", "2", "2", "3", "3", "7", "2", "0", "3", "6", "8", "5", "4", "7", "7", "5", "8", "0", "8">>,
      <<"1", "8", "4", "4", "6", "7", "4", "4", "0", "7", "3", "7", "0", "9", "5", "5", "1", "6", "1", "5">>,
      <<"-", "9", "2", "2", "3", "3", "7", "2", "0", "3", "6", "8", "5", "4", "7", "7", "5", "8", "0", "8">>,
      <<"-", "9", "2", "2", "3", "3", "7", "2", "0", "3", "6", "8", "5", "4", "7", "7", "5", "8", "0", "9">>,
      <<"3", ".", "1", "4">>,
      <<"n", "o", "t", "_", "a", "_", "n", "u", "m", "b", "e", "r">>,
      <<"t", "r", "u", "e">>,
      <<"T", "R", "U", "E">>,
      <<"f", "a", "l", "s", "e">>,
      <<"1">>,
      <<" ", "4", "2">>,
      <<"1", "2", "a", "b", "c">>,
      <<"h", "e", "l", "l", "o", " ", "w", "o", "r", "l", "d">>,
      <<"1", "e", "9", "9", "9">>,
      <<"0", ".", "0", "0", "0", "0", "0", "0", "1">>,
      <<"T", "r", "u", "e">>,
      <<"F", "A", "L", "S", "E">>,
      <<"0">>,
      <<"y", "e", "s">>,
      <<" ", "t", "r", "u", "e">>,
      <<"t", "r", "u", "e", " ">> }

FullDecls ==
    TypeHints \cup {Some(v) : v \in DefaultInts \cup OtherDefaults} \cup {NullOpt}

\* The texts and declarations of the runs with two names.
PairTexts == { <<>>, <<"4", "2">>, <<"a", "b", "c">> }

PairDecls == {Some(EnumValue("int_"))} \cup {Some(v) : v \in DefaultInts}

\* The orders in which an unordered_map of the names S may yield them.
Orders(S) ==
    {o \in [1..Cardinality(S) -> S] : \A n \in S : \E i \in 1..Cardinality(S) : o[i] = n}

EmptyMap == [n \in {} |-> NullOpt]

Libstds == {"P0608", "pre-P0608"}

NoCall == [op |-> "none"]

(***************************************************************************)
(* The calls, over the names N, the texts X and the declarations D.  Each  *)
(* leaves in "last" what was called and how it ended.                      *)
(***************************************************************************)
\* SetEnv writing the value into the store as well.
SetEnvCallWriteThrough(r, n, value, overwrite) ==
    /\ environ' = r.environ
    /\ last' = [op |-> "SetEnv", name |-> n, value |-> value, overwrite |-> overwrite,
                result |-> IF r.thrown THEN Thrown(r.exc) ELSE NoResult]
    /\ m_env_result' = IF r.thrown THEN m_env_result
                       ELSE Assign(m_env_result, n, Some(StringValue(value)))
    /\ UNCHANGED libstd

SetEnvCall(r, n, value, overwrite) ==
    /\ environ' = r.environ
    /\ last' = [op |-> "SetEnv", name |-> n, value |-> value, overwrite |-> overwrite,
                result |-> IF r.thrown THEN Thrown(r.exc) ELSE NoResult]
    /\ UNCHANGED <<m_env_result, libstd>>

CallSetEnv(N, X) ==
    \E n \in N \cup InvalidNames, value \in X, overwrite \in BOOLEAN, nomem \in BOOLEAN :
        SetEnvCall(SetEnv(environ, n, value, overwrite, nomem), n, value, overwrite)

SetEnvNCall(r, n, value, overwrite) ==
    /\ environ' = r.environ
    /\ last' = [op |-> "SetEnvN", name |-> n, value |-> value, overwrite |-> overwrite,
                result |-> Returned(r.ok)]
    /\ UNCHANGED <<m_env_result, libstd>>

CallSetEnvN(N, X) ==
    \E n \in N \cup InvalidNames, value \in X, overwrite \in BOOLEAN, nomem \in BOOLEAN :
        SetEnvNCall(SetEnvN(environ, n, value, overwrite, nomem), n, value, overwrite)

InitEnvCall(r, env_map, order) ==
    /\ m_env_result' = r.store
    /\ last' = [op |-> "InitEnv", env_map |-> env_map, order |-> order, at |-> r.at,
                result |-> IF r.thrown THEN Thrown(r.exc) ELSE NoResult]
    /\ UNCHANGED <<environ, libstd>>

CallInitEnv(N, D) ==
    \E S \in SUBSET N :
        \E env_map \in [S -> D], order \in Orders(S) :
            InitEnvCall(InitEnv(env_map, order, m_env_result, environ, libstd),
                        env_map, order)

CallGet(N) ==
    \E n \in N, T \in Types :
        /\ last' = [op |-> "Get", name |-> n, T |-> T, result |-> Get(T, m_env_result, n)]
        /\ UNCHANGED <<environ, m_env_result, libstd>>

CallGetN(N) ==
    \E n \in N, T \in Types :
        /\ last' = [op |-> "GetN", name |-> n, T |-> T, result |-> GetN(T, m_env_result, n)]
        /\ UNCHANGED <<environ, m_env_result, libstd>>

CallIsType(N) ==
    \E n \in N, T \in Types :
        /\ last' = [op |-> "IsType", name |-> n, T |-> T,
                    result |-> Returned(IsType(T, m_env_result, n))]
        /\ UNCHANGED <<environ, m_env_result, libstd>>

CallHasValue(N) ==
    \E n \in N :
        /\ last' = [op |-> "HasValue", name |-> n,
                    result |-> Returned(HasValue(m_env_result, n))]
        /\ UNCHANGED <<environ, m_env_result, libstd>>

\* The fallback handed to default_value for each T.
Fallback(T) ==
    CASE T = "int" -> IntValue(FALSE, <<"5", "4", "3">>)
      [] T = "longlong" -> LongLongValue(FALSE, <<"9", "9", "9">>)
      [] T = "double" -> DoubleValue(FALSE, <<"1", "5">>, 0 - 1)
      [] T = "bool" -> BoolValue(FALSE)
      [] T = "string" -> StringValue(<<"f", "a", "l", "l", "b", "a", "c", "k">>)

\* The two uses of the wrapper w that GetW<T>(n) returned: its conversion to
\* T, and default_value.  An exception of GetW itself ends the call.
UseWrapper(w, form, T) ==
    IF w.tag = "throw" THEN w
    ELSE IF form = "operator T" THEN OperatorT(w.v)
    ELSE default_value(w.v, Fallback(T))

GetWCall(w, n, T, form) ==
    /\ last' = [op |-> "GetW", name |-> n, T |-> T, form |-> form, wrapper |-> w,
                result |-> UseWrapper(w, form, T)]
    /\ UNCHANGED <<environ, m_env_result, libstd>>

CallGetW(N) ==
    \E n \in N, T \in Types, form \in {"operator T", "default_value"} :
        GetWCall(GetW(T, environ, n), n, T, form)

\* A pass over begin() .. end(): the pairs operator* yields, in the order of
\* the unordered_map, which the set leaves open.
CallIterate ==
    \E tieUp \in BOOLEAN :
        /\ last' = [op |-> "Iterate", result |-> Returned(Iterate(m_env_result, tieUp))]
        /\ UNCHANGED <<environ, m_env_result, libstd>>

CallEmpty ==
    /\ last' = [op |-> "Empty", result |-> Returned(Empty(m_env_result))]
    /\ UNCHANGED <<environ, m_env_result, libstd>>

(***************************************************************************)
(* Spec: two names and every call, over the short lists of texts and       *)
(* declarations.  The process starts with neither name set; no declaration *)
(* of these runs is a char*, so one library stands for both.               *)
(***************************************************************************)
PairNames == {NameA, NameB}

Init ==
    /\ environ = [n \in {} |-> <<>>]
    /\ m_env_result = EmptyMap
    /\ last = NoCall
    /\ libstd = "P0608"

Next ==
    \/ CallSetEnv(PairNames, PairTexts)
    \/ CallSetEnvN(PairNames, PairTexts)
    \/ CallInitEnv(PairNames, PairDecls)
    \/ CallGet(PairNames)
    \/ CallGetN(PairNames)
    \/ CallIsType(PairNames)
    \/ CallHasValue(PairNames)
    \/ CallEmpty
    \/ CallGetW(PairNames)
    \/ CallIterate

Spec == Init /\ [][Next]_vars

(***************************************************************************)
(* SpecResolve: one name, whose variable the process starts with unset or  *)
(* set to any of the texts, under either library; InitEnv with every       *)
(* declaration, and the reads.                                             *)
(***************************************************************************)
OneName == {NameA}

InitResolve ==
    /\ environ \in UNION {[S -> FullTexts] : S \in SUBSET OneName}
    /\ m_env_result = EmptyMap
    /\ last = NoCall
    /\ libstd \in Libstds

NextResolve ==
    \/ CallInitEnv(OneName, FullDecls)
    \/ CallGet(OneName)
    \/ CallGetN(OneName)
    \/ CallIsType(OneName)
    \/ CallHasValue(OneName)
    \/ CallEmpty
    \/ CallGetW(OneName)
    \/ CallIterate

SpecResolve == InitResolve /\ [][NextResolve]_vars


(***************************************************************************)
(* Vocabulary of the properties.  After a call of InitEnv, "last" holds    *)
(* its env_map, and the environment is the one the call read.              *)
(***************************************************************************)
\* The entry of n was processed to its end by the last InitEnv.
Resolved(n) ==
    /\ last.op = "InitEnv"
    /\ n \in DOMAIN last.env_map
    /\ (last.at = 0 \/ \E i \in 1..(last.at - 1) : last.order[i] = n)

\* The last InitEnv ended by throwing at the entry of n.
ThrewAt(n) ==
    /\ last.op = "InitEnv"
    /\ last.at # 0
    /\ last.order[last.at] = n

\* The last InitEnv got as far as the entry of n.
Reached(n) == Resolved(n) \/ ThrewAt(n)

\* The declaration of n in the env_map of the last InitEnv.
Decl(n) == last.env_map[n]

IsTypeHint(d) == d.has /\ d.v.kind = "EnvCfgTypes"

\* A default value of one of the five kinds a store entry can hold.
IsDefaultScalar(d) == d.has /\ d.v.kind \in Types

\* The kind a type hint names.
KindOfHint(e) ==
    IF e = "int_" THEN "int"
    ELSE IF e = "longlong_" THEN "longlong"
    ELSE IF e = "double_" THEN "double"
    ELSE IF e = "bool_" THEN "bool"
    ELSE "string"

\* The kind a declaration asks for.
DeclKind(d) == IF d.v.kind = "EnvCfgTypes" THEN KindOfHint(d.v.e) ELSE d.v.kind

\* The live text of n: empty when the variable is unset or set to nothing.
Live(n) == IF n \in DOMAIN environ THEN environ[n] ELSE <<>>

\* The entry of n holds exactly v, as every read of it shows.
HoldsExactly(n, v) ==
    /\ n \in DOMAIN m_env_result
    /\ m_env_result[n] = Some(v)
    /\ HasValue(m_env_result, n)
    /\ Get(v.kind, m_env_result, n) = Returned(v)
    /\ GetN(v.kind, m_env_result, n) = Returned(v)
    /\ \A T \in Types : IsType(T, m_env_result, n) <=> T = v.kind

\* The entry of n is there and holds nothing, as every read of it shows.
HoldsNone(n) ==
    /\ n \in DOMAIN m_env_result
    /\ m_env_result[n] = NullOpt
    /\ ~HasValue(m_env_result, n)
    /\ \A T \in Types :
        /\ GetN(T, m_env_result, n) = NoResult
        /\ ~IsType(T, m_env_result, n)
        /\ Get(T, m_env_result, n) = Thrown(EnvBadGet("no value for", n))

\* A text that is a decimal integer and nothing else: an optional minus
\* sign, then one digit or more.
AllDigitsFrom(s, j) == Len(s) >= j /\ \A i \in j..Len(s) : IsDigit(s[i])

IsDecimalInteger(s) ==
    IF s # <<>> /\ s[1] = "-" THEN AllDigitsFrom(s, 2) ELSE AllDigitsFrom(s, 1)

\* The integer such a text denotes, as a sign and the digits of its
\* magnitude without leading zeros.
DenotedMag(s) ==
    IF s[1] = "-" THEN StripLeadingZeros(Tail(s)) ELSE StripLeadingZeros(s)

DenotedNeg(s) == s[1] = "-" /\ DenotedMag(s) # <<"0">>

\* The integer lies in [-2^31, 2^31 - 1], or in [-2^63, 2^63 - 1].
InInt32(neg, mag) == MagLeq(mag, IF neg THEN IntMinMag ELSE IntMaxMag)

InInt64(neg, mag) == MagLeq(mag, IF neg THEN LLongMinMag ELSE LLongMaxMag)

(***************************************************************************)
(* The reads.                                                              *)
(***************************************************************************)
\* The result r of Get<T>(n) is the one the store calls for.
C1_GetOutcome(n, T, r) ==
    /\ r.tag \in {"value", "throw"}
    /\ r.tag = "throw" =>
         /\ r.exc.cls = "EnvBadGet"
         /\ r.exc.arg = n
         /\ r.exc.what \in {"not found", "no value for", "invalid type for"}
    /\ (r.tag = "throw" /\ r.exc.what = "not found") <=> n \notin DOMAIN m_env_result
    /\ (r.tag = "throw" /\ r.exc.what = "no value for") <=>
         (n \in DOMAIN m_env_result /\ ~m_env_result[n].has)
    /\ (r.tag = "throw" /\ r.exc.what = "invalid type for") <=>
         (n \in DOMAIN m_env_result /\ m_env_result[n].has /\ m_env_result[n].v.kind # T)
    /\ r.tag = "value" <=>
         (n \in DOMAIN m_env_result /\ m_env_result[n].has /\ m_env_result[n].v.kind = T)
    /\ r.tag = "value" => r.v = m_env_result[n].v

\* C1: Get<T>(n) throws "not found" when the store has no entry for n,
\* throws "no value for" when the entry of n is empty, throws "invalid type
\* for" when the entry holds a value of another kind than T, and otherwise
\* returns the stored value itself; every call ends in exactly one of these
\* four ways, all three errors being EnvBadGet.
C1_GetFourOutcomes ==
    last.op = "Get" => C1_GetOutcome(last.name, last.T, last.result)

\* Get<T> was called on an entry that holds a value of another kind.
C1_Witness ==
    /\ last.op = "Get"
    /\ last.name \in DOMAIN m_env_result
    /\ m_env_result[last.name].has
    /\ m_env_result[last.name].v.kind # last.T
    /\ last.result.tag = "throw"

\* The result r of GetN<T>(n) against the result g of Get<T>(n).
C2_GetNOutcome(r, g) ==
    /\ r.tag \in {"value", "nullopt"}
    /\ r.tag = "value" <=> g.tag = "value"
    /\ r.tag = "value" => r.v = g.v
    /\ r.tag = "nullopt" <=>
         (g.tag = "throw" /\ g.exc.what \in {"not found", "no value for", "invalid type for"})

\* C2: GetN<T>(n) never throws; it returns the value v exactly when
\* Get<T>(n) returns v, and an empty optional in each of the three cases
\* where Get<T>(n) throws: no entry for n, an empty entry, an entry of
\* another kind than T.
C2_GetNMatchesGet ==
    last.op = "GetN" =>
        C2_GetNOutcome(last.result, Get(last.T, m_env_result, last.name))

\* GetN<T> was called on an entry that holds a value of another kind.
C2_Witness ==
    /\ last.op = "GetN"
    /\ last.name \in DOMAIN m_env_result
    /\ m_env_result[last.name].has
    /\ m_env_result[last.name].v.kind # last.T
    /\ last.result = NoResult

(***************************************************************************)
(* InitEnv and the live text that does not parse.                          *)
(***************************************************************************)
\* C3: when n is declared with a default value and its live text is
\* non-empty and does not parse as the kind of the default, InitEnv does
\* not throw at n: the entry of n is processed to its end and holds nothing
\* (HasValue is false).
C3_DefaultBadTextGivesNone ==
    last.op = "InitEnv" =>
        \A n \in DOMAIN last.env_map :
            ( /\ IsDefaultScalar(Decl(n))
              /\ Live(n) # <<>>
              /\ GetEnvByTypeOf(DeclKind(Decl(n)), Live(n)).tag = "throw"
              /\ Reached(n) )
            => (Resolved(n) /\ HoldsNone(n))

\* C4: when n is declared with a type hint and its live text is non-empty
\* and does not parse as the hinted kind, InitEnv throws at n, and a handler
\* for EnvBadGet catches what it throws.
C4_HintBadTextThrowsEnvBadGet ==
    last.op = "InitEnv" =>
        \A n \in DOMAIN last.env_map :
            ( /\ IsTypeHint(Decl(n))
              /\ Live(n) # <<>>
              /\ GetEnvByTypeOf(DeclKind(Decl(n)), Live(n)).tag = "throw"
              /\ Reached(n) )
            => ( /\ ThrewAt(n)
                 /\ last.result.tag = "throw"
                 /\ Catches("EnvBadGet", last.result.exc.cls) )

\* Two texts that are not decimal integers.
C5_Texts ==
    { <<"3", ".", "1", "4">>,
      <<"n", "o", "t", "_", "a", "_", "n", "u", "m", "b", "e", "r">> }

\* C5: with the hint int_ and the live text "3.14" or "not_a_number", which
\* are not decimal integers, InitEnv throws at n, and afterwards IsType<int>
\* is false, GetN<int> is empty and Get<int> throws.
C5_Int32RejectsNonInteger ==
    last.op = "InitEnv" =>
        \A n \in DOMAIN last.env_map :
            ( /\ Decl(n) = Some(EnumValue("int_"))
              /\ Live(n) \in C5_Texts
              /\ ~IsDecimalInteger(Live(n))
              /\ Reached(n) )
            => ( /\ ThrewAt(n)
                 /\ ~IsType("int", m_env_result, n)
                 /\ GetN("int", m_env_result, n) = NoResult
                 /\ Get("int", m_env_result, n).tag = "throw" )

(***************************************************************************)
(* InitEnv and the live text that is missing or parses.                    *)
(***************************************************************************)
\* C6: when n is declared with a type hint and its variable is unset or set
\* to the empty text, InitEnv does not throw at n and stores an empty entry
\* for it: HasValue is false, GetN is empty for every kind, and Get throws
\* "no value for" for every kind.
C6_HintNoLiveGivesNone ==
    last.op = "InitEnv" =>
        \A n \in DOMAIN last.env_map :
            (IsTypeHint(Decl(n)) /\ Live(n) = <<>> /\ Reached(n))
            => (Resolved(n) /\ HoldsNone(n))

\* InitEnv processed a hinted name whose variable is set to the empty text.
C6_Witness ==
    /\ Resolved(NameA)
    /\ IsTypeHint(Decl(NameA))
    /\ NameA \in DOMAIN environ
    /\ environ[NameA] = <<>>
    /\ last.result = NoResult

\* C7: when n is declared with a default value d and its variable is unset
\* or set to the empty text, InitEnv does not throw at n and the entry of n
\* holds d: Get of d's kind returns exactly d, IsType is true for d's kind
\* and false for every other kind.
C7_DefaultNoLiveGivesDefault ==
    last.op = "InitEnv" =>
        \A n \in DOMAIN last.env_map :
            (IsDefaultScalar(Decl(n)) /\ Live(n) = <<>> /\ Reached(n))
            => (Resolved(n) /\ HoldsExactly(n, Decl(n).v))

\* InitEnv processed a name declared with the default 2.5 and no live text.
C7_Witness ==
    /\ Resolved(NameA)
    /\ Decl(NameA) = Some(DoubleValue(FALSE, <<"2", "5">>, 0 - 1))
    /\ NameA \notin DOMAIN environ
    /\ m_env_result[NameA] = Decl(NameA)

\* The entry of n holds the outcome p of a parse, which is of kind K.
C8_ParsedAs(n, K, p) ==
    /\ p.v.kind = K
    /\ Resolved(n)
    /\ HoldsExactly(n, p.v)

\* C8: when n is declared with a hint of kind K and its live text is
\* non-empty and parses as K, InitEnv does not throw at n and the entry of
\* n holds the parsed live value, of kind K: Get<K> returns it, IsType<K> is
\* true and IsType of every other kind is false.  The text "42" under the
\* hint int_ gives the int 42.
C8_HintLiveGivesParsed ==
    last.op = "InitEnv" =>
        \A n \in DOMAIN last.env_map :
            /\ ( /\ IsTypeHint(Decl(n))
                 /\ Live(n) # <<>>
                 /\ GetEnvByTypeOf(DeclKind(Decl(n)), Live(n)).tag = "value"
                 /\ Reached(n) )
               => C8_ParsedAs(n, DeclKind(Decl(n)), GetEnvByTypeOf(DeclKind(Decl(n)), Live(n)))
            /\ ( /\ Decl(n) = Some(EnumValue("int_"))
                 /\ Live(n) = <<"4", "2">>
                 /\ Reached(n) )
               => ( /\ HoldsExactly(n, IntValue(FALSE, <<"4", "2">>))
                    /\ ~IsType("longlong", m_env_result, n) )

\* InitEnv processed a name hinted longlong_ whose live text is 2^63 - 1.
C8_Witness ==
    /\ Resolved(NameA)
    /\ Decl(NameA) = Some(EnumValue("longlong_"))
    /\ Live(NameA) = LLongMaxMag
    /\ m_env_result[NameA] = Some(LongLongValue(FALSE, LLongMaxMag))

\* The entry of n holds the outcome p of a parse, which is of the kind of d.
C9_ParsedAs(n, d, p) ==
    /\ p.v.kind = d.kind
    /\ Resolved(n)
    /\ HoldsExactly(n, p.v)

\* C9: when n is declared with a default value d and its live text is
\* non-empty and parses as d's kind, InitEnv does not throw at n and the
\* entry of n holds the parsed live value, of d's kind, whatever d is.
C9_DefaultLiveGivesParsed ==
    last.op = "InitEnv" =>
        \A n \in DOMAIN last.env_map :
            ( /\ IsDefaultScalar(Decl(n))
              /\ Live(n) # <<>>
              /\ GetEnvByTypeOf(DeclKind(Decl(n)), Live(n)).tag = "value"
              /\ Reached(n) )
            => C9_ParsedAs(n, Decl(n).v, GetEnvByTypeOf(DeclKind(Decl(n)), Live(n)))

\* InitEnv processed a name declared with the default 0 whose live text is
\* "42": the entry holds 42, not 0.
C9_Witness ==
    /\ Resolved(NameA)
    /\ Decl(NameA) = Some(IntValue(FALSE, <<"0">>))
    /\ Live(NameA) = <<"4", "2">>
    /\ m_env_result[NameA] = Some(IntValue(FALSE, <<"4", "2">>))
    /\ m_env_result[NameA] # Decl(NameA)

(***************************************************************************)
(* The range of the integers.                                              *)
(***************************************************************************)
\* The entry of n after InitEnv read for it the integer of sign neg and
\* magnitude mag, asked for as a K; and the integers of the store.
C10_IntOf(K, neg, mag) ==
    IF K = "int" THEN IntValue(neg, mag) ELSE LongLongValue(neg, mag)

C10_Fits(K, neg, mag) ==
    IF K = "int" THEN InInt32(neg, mag) ELSE InInt64(neg, mag)

C10_Overflow(K) == IF K = "int" THEN "int overflow" ELSE "long long overflow"

C10_Entry(n, K, neg, mag) ==
    IF C10_Fits(K, neg, mag)
    THEN Resolved(n) /\ HoldsExactly(n, C10_IntOf(K, neg, mag))
    ELSE /\ ThrewAt(n)
         /\ last.result.tag = "throw"
         /\ last.result.exc.what = C10_Overflow(K)
         /\ last.result.exc.arg = Live(n)

C10_StoredInRange ==
    \A n \in DOMAIN m_env_result :
        m_env_result[n].has =>
            /\ m_env_result[n].v.kind = "int" =>
                 InInt32(m_env_result[n].v.neg, m_env_result[n].v.mag)
            /\ m_env_result[n].v.kind = "longlong" =>
                 InInt64(m_env_result[n].v.neg, m_env_result[n].v.mag)

\* C10: for a name that asks for an int (a long long), a live text that is
\* a decimal integer within [-2^31, 2^31 - 1] (within [-2^63, 2^63 - 1])
\* gives an entry that holds exactly that integer, and one outside makes
\* InitEnv throw at the name with "int overflow" ("long long overflow") and
\* store nothing for it; no int or long long of the store is ever outside
\* its range.
C10_IntegerRangeChecked ==
    /\ C10_StoredInRange
    /\ last.op = "InitEnv" =>
        \A n \in DOMAIN last.env_map :
            ( /\ Decl(n).has
              /\ DeclKind(Decl(n)) \in {"int", "longlong"}
              /\ IsDecimalInteger(Live(n))
              /\ Reached(n) )
            => C10_Entry(n, DeclKind(Decl(n)), DenotedNeg(Live(n)), DenotedMag(Live(n)))

\* InitEnv threw at a name hinted int_ whose live text is 2^31.
C10_Witness ==
    /\ ThrewAt(NameA)
    /\ Decl(NameA) = Some(EnumValue("int_"))
    /\ Live(NameA) = IntMinMag
    /\ last.result.exc.what = "int overflow"
    /\ NameA \notin DOMAIN m_env_result

(***************************************************************************)
(* The texts of a bool.                                                    *)
(***************************************************************************)
\* The upper-case form of the letters of "true" and "false".
UpperOf(c) ==
    IF c = "t" THEN "T" ELSE IF c = "r" THEN "R" ELSE IF c = "u" THEN "U"
    ELSE IF c = "e" THEN "E" ELSE IF c = "f" THEN "F" ELSE IF c = "a" THEN "A"
    ELSE IF c = "l" THEN "L" ELSE IF c = "s" THEN "S" ELSE c

\* The text s is the word w, each letter in either case.
IsWordAnyCase(s, w) ==
    /\ Len(s) = Len(w)
    /\ \A i \in 1..Len(w) : s[i] = w[i] \/ s[i] = UpperOf(w[i])

\* The entry of n after InitEnv read the non-empty text s for it as a bool.
C11_Entry(n, s) ==
    IF IsWordAnyCase(s, <<"t", "r", "u", "e">>)
    THEN Resolved(n) /\ HoldsExactly(n, BoolValue(TRUE))
    ELSE IF IsWordAnyCase(s, <<"f", "a", "l", "s", "e">>)
    THEN Resolved(n) /\ HoldsExactly(n, BoolValue(FALSE))
    ELSE /\ ThrewAt(n)
         /\ last.result.tag = "throw"
         /\ last.result.exc.what = "expected bool"
         /\ n \in DOMAIN m_env_result =>
              ~(m_env_result[n].has /\ m_env_result[n].v.kind = "bool")

\* C11: a name that asks for a bool gets true from a live text that is
\* "true" in any mix of cases ("TRUE", "True"), false from one that is
\* "false" in any mix of cases, and from every other non-empty text ("1",
\* "0", "yes", a word with white space around it) InitEnv throws at the name
\* with "expected bool" and stores no bool for it.
C11_BoolTextsExact ==
    last.op = "InitEnv" =>
        \A n \in DOMAIN last.env_map :
            ( /\ Decl(n).has
              /\ DeclKind(Decl(n)) = "bool"
              /\ Live(n) # <<>>
              /\ Reached(n) )
            => C11_Entry(n, Live(n))

\* InitEnv threw at a name hinted bool_ whose live text is "1".
C11_Witness ==
    /\ ThrewAt(NameA)
    /\ Decl(NameA) = Some(EnumValue("bool_"))
    /\ Live(NameA) = <<"1">>
    /\ last.result.exc.what = "expected bool"

(***************************************************************************)
(* GetW and its wrapper.                                                   *)
(***************************************************************************)
\* The result r of GetW<T>(n).default_value(f), p being the outcome of
\* parsing the live text of n as T.
C12_Outcome(r, p, f) ==
    /\ r.tag = "value"
    /\ p.tag = "value" => r.v = p.v
    /\ p.tag # "value" => r.v = f

\* C12: GetW<T>(n).default_value(f) never throws: it returns the parsed live
\* value when the variable is set, non-empty and parses as T, and f in
\* every other case, the variable unset or empty or its text not a T; the
\* live text "true" asked for as an int gives f.
C12_FallbackNeverThrows ==
    (last.op = "GetW" /\ last.form = "default_value") =>
        /\ C12_Outcome(last.result, GetEnvByTypeOf(last.T, Live(last.name)), Fallback(last.T))
        /\ (last.T = "int" /\ Live(last.name) = <<"t", "r", "u", "e">>)
             => last.result = Returned(Fallback("int"))

\* GetW<int>(n).default_value(f) was called with the live text "true".
C12_Witness ==
    /\ last.op = "GetW"
    /\ last.form = "default_value"
    /\ last.T = "int"
    /\ Live(last.name) = <<"t", "r", "u", "e">>
    /\ last.result = Returned(Fallback("int"))

\* The result r of converting GetW<T>(n) to T, p being the outcome of
\* parsing the live text of n as T.
C13_Outcome(r, p, n) ==
    /\ p.tag = "value" => r = Returned(p.v)
    /\ p.tag = "throw" =>
         /\ r.tag = "throw"
         /\ Catches("EnvBadGet", r.exc.cls)
         /\ r.exc.what = p.exc.what
         /\ r.exc.arg = p.exc.arg
    /\ p.tag = "nullopt" =>
         /\ r.tag = "throw"
         /\ Catches("EnvBadGet", r.exc.cls)
         /\ r.exc.what = "no value for"
         /\ r.exc.arg = n

\* C13: GetW<T>(n) itself never throws, and the conversion of what it
\* returns to T gives the parsed live value when the variable is set,
\* non-empty and parses as T, throws the error of the parse, which a handler
\* for EnvBadGet catches, when the text does not parse as T, and throws an
\* EnvBadGet "no value for" when the variable is unset or empty.
C13_StrictFormThrowsEnvBadGet ==
    (last.op = "GetW" /\ last.form = "operator T") =>
        /\ last.wrapper.tag = "value"
        /\ C13_Outcome(last.result, GetEnvByTypeOf(last.T, Live(last.name)), last.name)

(***************************************************************************)
(* The text of an entry, parsed again.                                     *)
(***************************************************************************)
\* The entry of n holds what its live text parses to, as the kind it holds.
FromLive(n) ==
    /\ n \in DOMAIN m_env_result
    /\ m_env_result[n].has
    /\ GetEnvByTypeOf(m_env_result[n].v.kind, Live(n)) = Returned(m_env_result[n].v)

\* C20: for every kind and every text that parses as that kind, the value
\* parsed, written as the iterator writes it and parsed again as the same
\* kind, is the same value.
C20_DisplayRoundTrip ==
    last.op = "Iterate" =>
        \A p \in last.result.v :
            FromLive(p[1]) =>
                GetEnvByTypeOf(m_env_result[p[1]].v.kind, p[2])
                    = Returned(m_env_result[p[1]].v)

(***************************************************************************)
(* What a call leaves alone.                                               *)
(***************************************************************************)
\* C14: a call that is not InitEnv (SetEnv, SetEnvN, GetW, a read, a pass of
\* the iterator) leaves the store as it was; Get, GetN, HasValue, IsType,
\* Empty and the iterator read nothing but the store, so they give what they
\* gave right after the last InitEnv, and what SetEnv writes reaches the
\* store only through a later InitEnv.
C14_StoreChangedOnlyByInitEnv ==
    [][last'.op # "InitEnv" => m_env_result' = m_env_result]_vars

\* SetEnv has set the variable of a stored name to a text that the entry,
\* resolved before, does not show.
C14_Witness ==
    /\ last.op = "SetEnv"
    /\ last.result = NoResult
    /\ last.name = NameA
    /\ environ[NameA] = <<"4", "2">>
    /\ NameA \in DOMAIN m_env_result
    /\ m_env_result[NameA] = Some(IntValue(FALSE, <<"0">>))

\* The entry that ProcessEntry makes for n from the declaration d, on its own.
EntryOf(n, d) == ProcessEntry(n, d, EmptyStore, environ, libstd).store[n]

\* The store m after an InitEnv of env_map that did not throw, m0 being the
\* store before.
C15_Overwritten(m0, m, env_map) ==
    /\ DOMAIN m = DOMAIN m0 \cup DOMAIN env_map
    /\ \A n \in DOMAIN m :
        IF n \in DOMAIN env_map THEN m[n] = EntryOf(n, env_map[n]) ELSE m[n] = m0[n]

\* C15: an InitEnv that does not throw leaves every name of its env_map with
\* the entry this call resolved for it, whatever it held before, and every
\* other name with the entry it held before; and no InitEnv, throwing or
\* not, removes an entry.
C15_ReinitOverwritesOnlyBatch ==
    [][last'.op = "InitEnv" =>
          /\ DOMAIN m_env_result \subseteq DOMAIN m_env_result'
          /\ last'.result = NoResult =>
               C15_Overwritten(m_env_result, m_env_result', last'.env_map)]_vars

\* InitEnv of B alone has ended normally on a store that holds for A the
\* default 0, resolved before the variable A was set to "42".
C15_Witness ==
    /\ last.op = "InitEnv"
    /\ last.result = NoResult
    /\ DOMAIN last.env_map = {NameB}
    /\ NameB \in DOMAIN m_env_result
    /\ NameA \in DOMAIN m_env_result
    /\ m_env_result[NameA] = Some(IntValue(FALSE, <<"0">>))
    /\ Live(NameA) = <<"4", "2">>

(***************************************************************************)
(* The kinds of the entries.                                               *)
(***************************************************************************)
\* HasValue and IsType of n against the entry of n.
C16_Flags(n) ==
    /\ HasValue(m_env_result, n) <=> (n \in DOMAIN m_env_result /\ m_env_result[n].has)
    /\ \A T \in Types :
        IsType(T, m_env_result, n) <=>
            (HasValue(m_env_result, n) /\ m_env_result[n].v.kind = T)
    /\ Cardinality({T \in Types : IsType(T, m_env_result, n)})
         = IF HasValue(m_env_result, n) THEN 1 ELSE 0

\* C16: HasValue(n) is true exactly when n has an entry that holds a value,
\* of whatever kind, and IsType<T>(n) exactly when HasValue(n) and the value
\* is a T; so IsType holds for one of the five kinds when HasValue is true
\* and for none when it is false.  Both calls return a boolean and never
\* throw.
C16_HasValueAndIsType ==
    /\ \A n \in PairNames : C16_Flags(n)
    /\ last.op = "HasValue" =>
         last.result = Returned(last.name \in DOMAIN m_env_result
                                /\ m_env_result[last.name].has)
    /\ last.op = "IsType" =>
         last.result = Returned(/\ last.name \in DOMAIN m_env_result
                                /\ m_env_result[last.name].has
                                /\ m_env_result[last.name].v.kind = last.T)

\* IsType<double> was called on an entry that holds a double.
C16_Witness ==
    /\ last.op = "IsType"
    /\ last.T = "double"
    /\ last.result = Returned(TRUE)
    /\ HasValue(m_env_result, last.name)
    /\ ~IsType("int", m_env_result, last.name)

\* C17: the value of an entry is of one of the five kinds, and the entry
\* that InitEnv wrote for a name declared with a hint or with a default of
\* one of the five kinds holds, when it holds a value, a value of exactly
\* the declared kind, whether the value came from the live text or from the
\* default.
C17_KindIsDeclaredKind ==
    /\ \A n \in DOMAIN m_env_result :
        m_env_result[n].has => m_env_result[n].v.kind \in Types
    /\ last.op = "InitEnv" =>
        \A n \in DOMAIN last.env_map :
            ( /\ IsTypeHint(Decl(n)) \/ IsDefaultScalar(Decl(n))
              /\ Resolved(n)
              /\ m_env_result[n].has )
            => m_env_result[n].v.kind = DeclKind(Decl(n))

\* InitEnv resolved the live text "42" for a name declared with a long long
\* default: the entry is the long long 42.
C17_Witness ==
    /\ Resolved(NameA)
    /\ Decl(NameA).has
    /\ Decl(NameA).v.kind = "longlong"
    /\ Live(NameA) = <<"4", "2">>
    /\ m_env_result[NameA] = Some(LongLongValue(FALSE, <<"4", "2">>))

(***************************************************************************)
(* SetEnv.                                                                 *)
(***************************************************************************)
\* A name SetEnv refuses: empty, or with a '=' in it.
IsInvalidName(n) == n = <<>> \/ \E i \in 1..Len(n) : n[i] = "="

\* The environment e after the variable n is written the text value, a
\* variable that is set being left alone unless overwrite.
Written(e, n, value, overwrite) ==
    IF n \in DOMAIN e /\ ~overwrite THEN e
    ELSE [x \in DOMAIN e \cup {n} |-> IF x = n THEN value ELSE e[x]]

\* The step of a SetEnv call l from the environment e to the environment f.
C18_Step(l, e, f) ==
    IF IsInvalidName(l.name)
    THEN /\ l.result.tag = "throw"
         /\ l.result.exc.cls = "EnvSetError"
         /\ l.result.exc.what = "invalid environment variable name"
         /\ f = e
    ELSE \/ /\ l.result = NoResult
            /\ f = Written(e, l.name, l.value, l.overwrite)
         \/ /\ l.result.tag = "throw"
            /\ l.result.exc.cls = "EnvSetError"
            /\ l.result.exc.what = "setenv failed for variable"
            /\ f = e

\* C18: SetEnv(name, value, overwrite) throws EnvSetError for a name that is
\* empty or holds '=', the environment left as it was and setenv not called;
\* for any other name it calls setenv, so that the variable is written
\* (unless it is set and overwrite is false), and throws EnvSetError only
\* when setenv fails, the environment then left as it was.
C18_SetEnvValidatesName ==
    [][last'.op = "SetEnv" => C18_Step(last', environ, environ')]_vars

\* SetEnv was refused the name "A=B".
C18_Witness ==
    /\ last.op = "SetEnv"
    /\ last.name = <<"A", "=", "B">>
    /\ last.result.tag = "throw"
    /\ last.result.exc.what = "invalid environment variable name"

(***************************************************************************)
(* Empty.                                                                  *)
(***************************************************************************)
\* C19: Empty() is true exactly when the store has no entry: it is true on
\* a new EnvCfg and stays true until an InitEnv, it is false after an
\* InitEnv that wrote an entry for at least one name, the entries all empty
\* or not, and once false it is never true again.
C19_EmptyUntilFirstEntry ==
    /\ Empty(m_env_result)
    /\ [][/\ Empty(m_env_result') <=> Cardinality(DOMAIN m_env_result') = 0
          /\ last'.op = "Empty" => last'.result = Returned(DOMAIN m_env_result' = {})
          /\ (Empty(m_env_result) /\ last'.op # "InitEnv") => Empty(m_env_result')
          /\ (last'.op = "InitEnv" /\ \E n \in DOMAIN last'.env_map :
                  last'.at = 0 \/ \E i \in 1..(last'.at - 1) : last'.order[i] = n)
               => ~Empty(m_env_result')
          /\ ~Empty(m_env_result) => ~Empty(m_env_result')]_vars

\* Empty() returned false on a store whose entries are all empty.
C19_Witness ==
    /\ last.op = "Empty"
    /\ last.result = Returned(FALSE)
    /\ DOMAIN m_env_result # {}
    /\ \A n \in DOMAIN m_env_result : ~m_env_result[n].has

(***************************************************************************)
(* What the error of InitEnv tells.                                        *)
(***************************************************************************)
\* The text s stands somewhere in the text t.
IsInfix(s, t) ==
    \E i \in 0..(Len(t) - Len(s)) : SubSeq(t, i + 1, i + Len(s)) = s

\* The fixed words of the errors of a parse: invalid format, or overflow.
ParseErrorWords ==
    { "expected int", "int overflow", "expected double", "expected long long",
      "long long overflow", "expected bool" }

\* The message of exc is its prefixes, its fixed words and the text appended
\* to them; the words are those of the source whatever the name, so the
\* message carries the name n only where the appended text does.
CarriesName(exc, n) == IsInfix(n, exc.arg)

\* C21: when InitEnv throws at the entry of a name declared by a type hint,
\* the error carries the words of the underlying parse error, invalid format
\* or overflow, and the name of the variable that failed, so that in a batch
\* of several hinted names the error tells which one failed.
C21_ErrorIdentifiesName ==
    \A n \in PairNames :
        (ThrewAt(n) /\ IsTypeHint(Decl(n))) =>
            /\ last.result.tag = "throw"
            /\ last.result.exc.what \in ParseErrorWords
            /\ CarriesName(last.result.exc, n)

(***************************************************************************)
(* SetEnvN.                                                                *)
(***************************************************************************)
\* In the environment f the name n counts as absent: its text is empty, no
\* conversion of it yields a value or an error, GetW hands back a wrapper
\* with neither, and InitEnv resolves a type hint to no value and a default
\* to the default.
C22_CountsAbsent(f, n, lib) ==
    /\ GetEnv(f, n) = <<>>
    /\ \A T \in Types :
        /\ GetEnvByType(T, f, n) = NoResult
        /\ GetW(T, f, n) = Returned(EnvDefaultValueNamed(n, NullOpt))
    /\ \A d \in PairDecls :
        ProcessEntry(n, d, EmptyStore, f, lib).store[n]
            = IF IsTypeHint(d) THEN NullOpt ELSE Some(d.v)

\* The step of a SetEnvN call l from the environment e to the environment f.
C22_Step(l, e, f, lib) ==
    /\ l.result.tag = "value"
    /\ l.result.v \in BOOLEAN
    /\ IsInvalidName(l.name) => (l.result.v = FALSE /\ f = e)
    /\ l.result.v = TRUE => f = Written(e, l.name, l.value, l.overwrite)
    /\ l.result.v = FALSE => f = e
    /\ (l.result.v = TRUE /\ l.value = <<>> /\ (l.overwrite \/ l.name \notin DOMAIN e))
         => C22_CountsAbsent(f, l.name, lib)

\* C22: SetEnvN(name, value, overwrite) never throws and does not check the
\* name: it returns true exactly when setenv wrote (or, overwrite being
\* false, left alone) the variable and false when setenv failed, the
\* environment then left as it was; an empty name or a name with '=' gives
\* false; and writing the empty text succeeds and leaves the name counting
\* as absent for InitEnv and GetW.
C22_SetEnvNReportsWrite ==
    [][last'.op = "SetEnvN" => C22_Step(last', environ, environ', libstd)]_vars

\* SetEnvN("A", "", true) returned true on a variable that the store shows
\* was "42" at the last InitEnv, and the variable is now empty.
C22_Witness ==
    /\ last.op = "SetEnvN"
    /\ last.name = NameA
    /\ last.value = <<>>
    /\ last.overwrite
    /\ last.result = Returned(TRUE)
    /\ environ[NameA] = <<>>
    /\ NameA \in DOMAIN m_env_result
    /\ m_env_result[NameA] = Some(IntValue(FALSE, <<"4", "2">>))

(***************************************************************************)
(* An InitEnv that throws.                                                 *)
(***************************************************************************)
\* The name n has in the store m what it had in the store m0: no entry, or
\* the same entry.
SameEntry(m0, m, n) ==
    /\ n \in DOMAIN m <=> n \in DOMAIN m0
    /\ n \in DOMAIN m0 => m[n] = m0[n]

\* An entry is whole: empty, or a value of one of the five kinds.
WholeEntry(entry) == entry = NullOpt \/ (entry.has /\ entry.v.kind \in Types)

\* The store m after the InitEnv call l threw at the place l.at of its
\* order, m0 being the store before.
C23_Step(l, m0, m) ==
    /\ l.at \in 1..Len(l.order)
    /\ SameEntry(m0, m, l.order[l.at])
    /\ \A n \in PairNames \ DOMAIN l.env_map : SameEntry(m0, m, n)
    /\ \A i \in 1..(l.at - 1) :
        /\ l.order[i] \in DOMAIN m
        /\ m[l.order[i]] = EntryOf(l.order[i], l.env_map[l.order[i]])
    /\ \A i \in (l.at + 1)..Len(l.order) : SameEntry(m0, m, l.order[i])
    /\ DOMAIN m \subseteq PairNames
    /\ \A n \in DOMAIN m : WholeEntry(m[n])

\* C23: when InitEnv throws at the entry of a name n, the store holds for n
\* what it held before the call, no entry or the earlier entry; for every
\* name outside the env_map what it held before; for every name of the
\* env_map that came before n the entry this call resolved; for every name
\* of the env_map after n what it held before; and every entry is whole.
C23_FailedInitEnvCommitsPerName ==
    [][(last'.op = "InitEnv" /\ last'.result.tag = "throw")
          => C23_Step(last', m_env_result, m_env_result')]_vars

\* InitEnv of A and B threw at the second of them, whose text is "abc" and
\* whose entry is still an earlier value, after writing 42 for the first.
C23_Witness ==
    /\ last.op = "InitEnv"
    /\ last.result.tag = "throw"
    /\ last.at = 2
    /\ Live(last.order[2]) = <<"a", "b", "c">>
    /\ last.order[2] \in DOMAIN m_env_result
    /\ m_env_result[last.order[2]] = Some(IntValue(FALSE, <<"0">>))
    /\ Live(last.order[1]) = <<"4", "2">>
    /\ m_env_result[last.order[1]] = Some(IntValue(FALSE, <<"4", "2">>))
====
